---------------------------- MODULE Spec2Model ----------------------------
(***************************************************************************)
(* State-machine model of src/src/App.jsx: the TodoApp screen (text field, *)
(* Add / QR buttons, status banner, submission to /api/mark-all-present)   *)
(* and its QrScanner child (camera session and 300 ms capture loop).       *)
(*                                                                         *)
(* JavaScript strings are sequences of one-character strings, so that      *)
(* trim / slice / toUpperCase are computed and not assumed.  A banner text *)
(* is the sequence of its lines (the "\n"-joined parts); a line is a       *)
(* sequence of string fragments.  The emoji prefixes of the literal texts  *)
(* are left out of the literals (the module is ASCII).                     *)
(*                                                                         *)
(* Every handler is one atomic action: the state setters it calls, the     *)
(* re-render they cause and the effect / effect-cleanup of that re-render  *)
(* (line 110-118) belong to the action.  The suspension points of the      *)
(* code (await getUserMedia, the loadedmetadata event, the interval tick,  *)
(* await fetch / response.json) are the boundaries between actions.        *)
(***************************************************************************)
EXTENDS Naturals, Sequences, FiniteSets

VARIABLES
    taskInput,      \* line 191: text field content
    isLoading,      \* line 192: in-flight flag
    message,        \* line 193: [text, isSuccess]
    showQrScanner,  \* line 194: scanner flag
    scanners,       \* sequence of QrScanner instances ever mounted (lines 8-15)
    pending,        \* fetch requests issued (line 211) and not yet settled
    nIssued         \* number of fetch requests issued so far

vars == <<taskInput, isLoading, message, showQrScanner, scanners, pending, nIssued>>

----------------------------------------------------------------------------
(* Bounds of the model *)

MaxSessions == 2   \* QrScanner instances mounted in one run
MaxRequests == 2   \* fetch requests issued in one run

----------------------------------------------------------------------------
(* JavaScript values *)

\* null (the default of handleAddTask's parameter, line 196)
Null == <<"null">>

\* a ref holding null (lines 14, 15, 61)
NullRef == 0

\* What the user types into the text field (e.target.value, line 357):
\* nothing, blanks only, a text with blanks around it
TypedTexts == {<<>>, <<" ">>, <<" ", "a", " ">>}

\* What jsQR reads from a frame (code.data, line 86): an empty payload, a
\* text with a leading blank
QrTexts == {<<>>, <<" ", "b">>}

\* Truthy with the empty string taken for truthy
TruthyEmptyString(v) == v # Null

\* JS truthiness of null or a string: null and "" are falsy
Truthy(v) == v # Null /\ v # <<>>

IsSpace(c) == c = " "

RECURSIVE TrimStart(_)
TrimStart(s) ==
    IF s # <<>> /\ IsSpace(Head(s)) THEN TrimStart(Tail(s)) ELSE s

RECURSIVE TrimEnd(_)
TrimEnd(s) ==
    IF s # <<>> /\ IsSpace(s[Len(s)]) THEN TrimEnd(SubSeq(s, 1, Len(s) - 1)) ELSE s

\* String.prototype.trim (lines 197, 367, 390)
Trim(s) == TrimEnd(TrimStart(s))

\* String.prototype.slice(from, to) for 0 <= from <= to (line 238)
Slice(s, from, to) ==
    SubSeq(s, from + 1, IF to < Len(s) THEN to ELSE Len(s))

LowerCase == <<"a","b","c","d","e","f","g","h","i","j","k","l","m",
               "n","o","p","q","r","s","t","u","v","w","x","y","z">>
UpperCase == <<"A","B","C","D","E","F","G","H","I","J","K","L","M",
               "N","O","P","Q","R","S","T","U","V","W","X","Y","Z">>

ToUpperChar(c) ==
    IF \E k \in 1..Len(LowerCase) : LowerCase[k] = c
    THEN UpperCase[CHOOSE k \in 1..Len(LowerCase) : LowerCase[k] = c]
    ELSE c

\* String.prototype.toUpperCase (line 238)
ToUpperCase(s) == [k \in 1..Len(s) |-> ToUpperChar(s[k])]

----------------------------------------------------------------------------
(* Status texts *)

NoText == <<>>                                                \* text: null
PleaseEnterText == << <<"Please enter a task or scan QR">> >>  \* line 201
SuccessText == << <<"Task completed successfully!">> >>        \* line 229
SomeFailedHeader == <<"Some tasks failed:">>                   \* line 242
GenericFailText == << <<"Failed to process task. Please try again.">> >> \* line 249
CameraErrorText == << <<"Camera access denied or not available">> >>     \* line 54

NOT_VALID == "ATTENDANCE_NOT_VALID"                            \* line 224


----------------------------------------------------------------------------
(* QrScanner (lines 8-188) *)

\* track.getCapabilities().zoom (lines 36-38): absent, or a range
NoZoomCapability == [min |-> 0, max |-> 0, step |-> 0]
ZoomCapabilities == {NoZoomCapability, [min |-> 1, max |-> 2, step |-> 0]}
HasZoom(cap) == cap # NoZoomCapability

\* A QrScanner instance right after its first render and effect (lines 9-15,
\* 110-112): isActive && hasCamera holds, so startCamera has run up to its
\* await and the getUserMedia request is pending.
\*   camera           the getUserMedia promise: "pending", "granted", "denied"
\*   tracksLive       the tracks of the stream this instance acquired are live
\*   onloadedmetadata the handler of line 33: "unset", "set", "fired"
\*   timerRunning     the interval of line 78 is set and not cleared
\*   deviceZoom       the zoom the live track really has
\*   fires            how often this instance's loop has called onScan
\*   stopped          stopCamera has run for this instance
\*   threw            stopCamera has thrown for this instance
\*   lastMiss         the last tick of this instance's loop that ended early:
\*                    "not_ready" (line 79) or "throws" (line 89), else "none"
NewScanner ==
    [mounted |-> TRUE, hasCamera |-> TRUE, camera |-> "pending",
     streamRef |-> NullRef, tracksLive |-> FALSE, onloadedmetadata |-> "unset",
     scanIntervalRef |-> NullRef, timerRunning |-> FALSE,
     zoomLevel |-> 1, zoomRange |-> [min |-> 1, max |-> 1, step |-> 1],
     deviceZoom |-> 1, fires |-> 0, stopped |-> FALSE, threw |-> FALSE,
     lastMiss |-> "none"]

\* stopCamera without its clearInterval (lines 63-65 left out)
StopCameraKeepsInterval(s) ==
    [s EXCEPT !.tracksLive = IF s.streamRef # NullRef THEN FALSE ELSE @,
              !.streamRef = NullRef,
              !.stopped = TRUE]

\* stopCamera without its guards (lines 59 and 63): with no stream held,
\* getTracks is called on null, which throws before the interval is cleared
StopCameraNoGuard(s) ==
    IF s.streamRef = NullRef
    THEN [s EXCEPT !.threw = TRUE, !.stopped = TRUE]
    ELSE [s EXCEPT !.tracksLive = FALSE,
                   !.streamRef = NullRef,
                   !.timerRunning = FALSE,
                   !.stopped = TRUE]

\* stopCamera (lines 58-66)
StopCamera(s) ==
    [s EXCEPT !.tracksLive = IF s.streamRef # NullRef THEN FALSE ELSE @,
              !.streamRef = NullRef,
              !.timerRunning = IF s.scanIntervalRef # NullRef THEN FALSE ELSE @,
              !.stopped = TRUE]

\* Unmounting an instance: React detaches videoRef / canvasRef, runs the
\* effect's cleanup (line 117) and discards the zoom state (lines 12-13) and
\* the video element with its handler (line 33); the released track has no
\* zoom any more and the instance's loop has ended
Unmount(s) ==
    StopCamera([s EXCEPT !.mounted = FALSE,
                         !.zoomLevel = NewScanner.zoomLevel,
                         !.zoomRange = NewScanner.zoomRange,
                         !.deviceZoom = NewScanner.deviceZoom,
                         !.lastMiss = NewScanner.lastMiss,
                         !.onloadedmetadata = "unset"])

\* startScanning (lines 68-94), called by the instance with index i
StartScanning(s, i) ==
    IF ~s.mounted THEN s      \* line 69: the refs of an unmounted instance are null
    ELSE [s EXCEPT !.scanIntervalRef = i, !.timerRunning = TRUE]

\* The commit of a TodoApp render with scanner flag show (lines 324-351):
\* the QrScanner is mounted iff the flag is set.
Reconcile(show, scs) ==
    IF show
    THEN IF \E i \in DOMAIN scs : scs[i].mounted THEN scs ELSE Append(scs, NewScanner)
    ELSE [i \in DOMAIN scs |-> IF scs[i].mounted THEN Unmount(scs[i]) ELSE scs[i]]

----------------------------------------------------------------------------
(* TodoApp (lines 190-408) *)

Init ==
    /\ taskInput = <<>>
    /\ isLoading = FALSE
    /\ message = [text |-> NoText, isSuccess |-> FALSE]
    /\ showQrScanner = FALSE
    /\ scanners = <<>>
    /\ pending = {}
    /\ nIssued = 0

\* line 197 without the trim: attendanceId || taskInput
InputValueNoTrim(attendanceId, input) ==
    IF Truthy(attendanceId) THEN attendanceId ELSE input

\* line 197 with the operands swapped: taskInput.trim() || attendanceId
InputValueTypedFirst(attendanceId, input) ==
    IF Truthy(Trim(input)) THEN Trim(input) ELSE attendanceId

\* line 197: attendanceId || taskInput.trim()
InputValue(attendanceId, input) ==
    IF Truthy(attendanceId) THEN attendanceId ELSE Trim(input)

\* handleAddTask up to its await (lines 196-215).  input is the taskInput of
\* the render whose closure runs; inputAfter is the text field once the
\* setters queued by the caller have been applied.
HandleAddTask(attendanceId, input, inputAfter) ==
    LET inputValue == InputValue(attendanceId, input) IN
    IF ~Truthy(inputValue)
    THEN /\ message' = [text |-> PleaseEnterText, isSuccess |-> FALSE]
         /\ UNCHANGED <<isLoading, pending, nIssued>>
    ELSE /\ nIssued < MaxRequests
         /\ isLoading' = TRUE
         /\ message' = [text |-> NoText, isSuccess |-> FALSE]
         /\ nIssued' = nIssued + 1
         /\ pending' = pending \cup
               {[id |-> nIssued + 1, attendanceId |-> inputValue, startInput |-> inputAfter]}

\* line 357: onChange of the text field (disabled while isLoading, line 365)
ChangeInput(s) ==
    /\ ~isLoading
    /\ taskInput' = s
    /\ UNCHANGED <<isLoading, message, showQrScanner, scanners, pending, nIssued>>

\* lines 366-370: Enter in the text field
PressEnter ==
    /\ ~isLoading
    /\ Truthy(Trim(taskInput))
    /\ HandleAddTask(Null, taskInput, taskInput)
    /\ UNCHANGED <<taskInput, showQrScanner, scanners>>

\* lines 388-390: the Add button
ClickAdd ==
    /\ ~(isLoading \/ ~Truthy(Trim(taskInput)))
    /\ HandleAddTask(Null, taskInput, taskInput)
    /\ UNCHANGED <<taskInput, showQrScanner, scanners>>

\* lines 372-374: the QR / Close button
ToggleQr ==
    /\ ~isLoading
    /\ showQrScanner \/ Len(scanners) < MaxSessions
    /\ showQrScanner' = ~showQrScanner
    /\ scanners' = Reconcile(~showQrScanner, scanners)
    /\ UNCHANGED <<taskInput, isLoading, message, pending, nIssued>>

\* lines 334-335: the close cross of the scanner panel
CloseScanner ==
    /\ showQrScanner
    /\ showQrScanner' = FALSE
    /\ scanners' = Reconcile(FALSE, scanners)
    /\ UNCHANGED <<taskInput, isLoading, message, pending, nIssued>>


\* handleQrScan (lines 257-262), called by the tick of instance i with the
\* decoded text; the re-render it causes unmounts the scanner.
HandleQrScan(i, scannedData) ==
    /\ taskInput' = scannedData
    /\ showQrScanner' = FALSE
    /\ HandleAddTask(scannedData, taskInput, scannedData)
    /\ scanners' = Reconcile(FALSE,
           [scanners EXCEPT ![i].fires = @ + 1])

----------------------------------------------------------------------------
(* The submission's response (lines 217-254) *)

Alice == <<"a","l","i","c","e","@","e","x","a","m","p","l","e",".","c","o","m">>
Bob == <<"B","o","b","@","x",".","i","o">>

\* Summary entries; code is user.data?.output?.data?.code: the failure code
\* or undefined
AliceFailed == [email |-> Alice, code |-> NOT_VALID]
BobFailed == [email |-> Bob, code |-> NOT_VALID]
BobPresent == [email |-> Bob, code |-> "undefined"]

\* The summary lists of the responses: empty, no failed entry, one failed
\* entry, failed entries in both orders, failed entries around another entry
Summaries ==
    {<<>>, <<BobPresent>>, <<AliceFailed>>, <<BobPresent, BobFailed>>,
     <<AliceFailed, BobFailed>>, <<BobFailed, AliceFailed>>,
     <<BobFailed, BobPresent, AliceFailed>>}

\* What the awaited fetch / response.json() yield
Outcomes ==
    {[kind |-> k, summary |-> <<>>] :
        k \in {"network_error", "http_error", "bad_json", "no_summary"}}
    \cup {[kind |-> "ok", summary |-> s] : s \in Summaries}

\* line 224 with !== for ===
IsFailedUserNegated(user) == user.code # NOT_VALID

\* lines 223-225: summary.filter(user => code === "ATTENDANCE_NOT_VALID")
IsFailedUser(user) == user.code = NOT_VALID

RECURSIVE FailedUsers(_)
FailedUsers(summary) ==
    IF summary = <<>> THEN <<>>
    ELSE IF IsFailedUser(Head(summary))
         THEN <<Head(summary)>> \o FailedUsers(Tail(summary))
         ELSE FailedUsers(Tail(summary))

\* line 238: `${email.slice(0, 11).toUpperCase()}: ${reasonCode}`
FailedMessage(user) ==
    ToUpperCase(Slice(user.email, 0, 11)) \o <<":", " ">> \o <<user.code>>

\* lines 235-239
FailedMessages(failedUsers) ==
    [k \in 1..Len(failedUsers) |-> FailedMessage(failedUsers[k])]

\* line 242: the header line, then the messages joined by "\n"
SomeFailedText(failedMessages) == <<SomeFailedHeader>> \o failedMessages

\* handleAddTask after its await without the response.ok check of lines
\* 217-219: the body of an error response is read like any other
ResponseOkUnchecked(r, outcome) ==
    /\ r \in pending
    /\ pending' = pending \ {r}
    /\ isLoading' = FALSE
    /\ nIssued' = nIssued
    /\ IF outcome.kind \notin {"ok", "http_error"}
       THEN /\ message' = [text |-> GenericFailText, isSuccess |-> FALSE]
            /\ UNCHANGED <<taskInput, showQrScanner, scanners>>
       ELSE LET failedUsers == FailedUsers(outcome.summary) IN
            IF Len(failedUsers) = 0
            THEN /\ message' = [text |-> SuccessText, isSuccess |-> TRUE]
                 /\ taskInput' = <<>>
                 /\ showQrScanner' = FALSE
                 /\ scanners' = Reconcile(FALSE, scanners)
            ELSE /\ message' = [text |-> SomeFailedText(FailedMessages(failedUsers)),
                                isSuccess |-> FALSE]
                 /\ UNCHANGED <<taskInput, showQrScanner, scanners>>

\* handleAddTask after its await without the finally of lines 252-254
ResponseKeepsLoading(r, outcome) ==
    /\ r \in pending
    /\ pending' = pending \ {r}
    /\ isLoading' = isLoading
    /\ nIssued' = nIssued
    /\ IF outcome.kind # "ok"
       THEN /\ message' = [text |-> GenericFailText, isSuccess |-> FALSE]
            /\ UNCHANGED <<taskInput, showQrScanner, scanners>>
       ELSE LET failedUsers == FailedUsers(outcome.summary) IN
            IF Len(failedUsers) = 0
            THEN /\ message' = [text |-> SuccessText, isSuccess |-> TRUE]
                 /\ taskInput' = <<>>
                 /\ showQrScanner' = FALSE
                 /\ scanners' = Reconcile(FALSE, scanners)
            ELSE /\ message' = [text |-> SomeFailedText(FailedMessages(failedUsers)),
                                isSuccess |-> FALSE]
                 /\ UNCHANGED <<taskInput, showQrScanner, scanners>>

\* handleAddTask after its await (lines 217-254), for request r
Response(r, outcome) ==
    /\ r \in pending
    /\ pending' = pending \ {r}
    /\ isLoading' = FALSE                                     \* line 253
    /\ nIssued' = nIssued
    /\ IF outcome.kind # "ok"
       THEN /\ message' = [text |-> GenericFailText, isSuccess |-> FALSE]
            /\ UNCHANGED <<taskInput, showQrScanner, scanners>>
       ELSE LET failedUsers == FailedUsers(outcome.summary) IN
            IF Len(failedUsers) = 0
            THEN /\ message' = [text |-> SuccessText, isSuccess |-> TRUE]
                 /\ taskInput' = <<>>
                 /\ showQrScanner' = FALSE
                 /\ scanners' = Reconcile(FALSE, scanners)
            ELSE /\ message' = [text |-> SomeFailedText(FailedMessages(failedUsers)),
                                isSuccess |-> FALSE]
                 /\ UNCHANGED <<taskInput, showQrScanner, scanners>>

----------------------------------------------------------------------------
(* Events of a QrScanner instance *)

\* getUserMedia resolves (lines 27-50)
GrantCamera(i) ==
    /\ scanners[i].camera = "pending"
    /\ scanners' = [scanners EXCEPT
           ![i].camera = "granted",
           ![i].streamRef = i,
           ![i].tracksLive = TRUE,
           ![i].onloadedmetadata = IF scanners[i].mounted THEN "set" ELSE @]
    /\ UNCHANGED <<taskInput, isLoading, message, showQrScanner, pending, nIssued>>

\* a rejection after which the instance asks for the camera again
DenyCameraRetries(i) ==
    /\ scanners[i].camera = "pending"
    /\ scanners' = [scanners EXCEPT ![i] =
           IF scanners[i].mounted THEN StopCamera(StopCamera(@)) ELSE @]
    /\ message' = [text |-> CameraErrorText, isSuccess |-> FALSE]
    /\ UNCHANGED <<taskInput, isLoading, showQrScanner, pending, nIssued>>

\* getUserMedia rejects (lines 51-55); the re-render with hasCamera false runs
\* the effect's cleanup and its else branch (lines 113-117)
DenyCamera(i) ==
    /\ scanners[i].camera = "pending"
    /\ scanners' = [scanners EXCEPT ![i] =
           IF scanners[i].mounted
           THEN StopCamera(StopCamera([@ EXCEPT !.camera = "denied", !.hasCamera = FALSE]))
           ELSE [@ EXCEPT !.camera = "denied"]]
    /\ message' = [text |-> CameraErrorText, isSuccess |-> FALSE]   \* line 266
    /\ UNCHANGED <<taskInput, isLoading, showQrScanner, pending, nIssued>>

\* the video's loadedmetadata event (lines 33-49).  On an unmounted instance
\* the handler changes nothing: its setters are no-ops and startScanning
\* returns at line 69.
LoadedMetadata(i, zoom) ==
    /\ scanners[i].onloadedmetadata = "set"
    /\ scanners[i].mounted
    /\ LET s == [scanners[i] EXCEPT !.onloadedmetadata = "fired"]
           z == IF HasZoom(zoom)
                THEN [s EXCEPT
                        !.zoomRange = [min |-> zoom.min, max |-> zoom.max,
                                       step |-> IF zoom.step # 0 THEN zoom.step ELSE 1],
                        !.zoomLevel = zoom.min,
                        !.deviceZoom = zoom.min]                 \* line 45
                ELSE s
       IN scanners' = [scanners EXCEPT ![i] = StartScanning(z, i)]
    /\ UNCHANGED <<taskInput, isLoading, message, showQrScanner, pending, nIssued>>

\* What one tick finds (lines 79-91): the video not ready, no code in the
\* frame, jsQR throwing, or a code with its data
TickResults ==
    {[kind |-> k, data |-> <<>>] : k \in {"not_ready", "no_code", "throws"}}
    \cup {[kind |-> "code", data |-> d] : d \in QrTexts}

\* the interval callback without the readyState test of line 79: the frame
\* of a video that is not ready is decoded and read as a code
TickDecodesUnready(i, result) ==
    /\ scanners[i].timerRunning
    /\ IF result.kind = "not_ready"
       THEN HandleQrScan(i, <<" ", "b">>)
       ELSE IF result.kind = "code" /\ Truthy(result.data)
       THEN HandleQrScan(i, result.data)
       ELSE /\ scanners' = [scanners EXCEPT ![i].lastMiss =
                   IF result.kind = "throws" THEN result.kind ELSE @]
            /\ UNCHANGED <<taskInput, isLoading, message, showQrScanner, pending, nIssued>>

\* the interval callback without the try / catch of lines 80-91: a decode
\* error ends the session's loop and releases the camera
TickStopsOnThrow(i, result) ==
    /\ scanners[i].timerRunning
    /\ IF result.kind = "code" /\ Truthy(result.data)
       THEN HandleQrScan(i, result.data)
       ELSE /\ scanners' = [scanners EXCEPT ![i] =
                   IF result.kind = "throws"
                   THEN [StopCamera(@) EXCEPT !.lastMiss = "throws"]
                   ELSE [@ EXCEPT !.lastMiss =
                            IF result.kind = "not_ready" THEN result.kind ELSE @]]
            /\ UNCHANGED <<taskInput, isLoading, message, showQrScanner, pending, nIssued>>

\* the interval callback (lines 78-93)
Tick(i, result) ==
    /\ scanners[i].timerRunning
    /\ IF result.kind = "code" /\ Truthy(result.data)             \* line 86
       THEN HandleQrScan(i, result.data)
       ELSE /\ scanners' = [scanners EXCEPT ![i].lastMiss =
                   IF result.kind \in {"not_ready", "throws"} THEN result.kind ELSE @]
            /\ UNCHANGED <<taskInput, isLoading, message, showQrScanner, pending, nIssued>>

\* handleZoomChange showing a rejected constraint to the user: the displayed
\* zoom is not changed and the error goes to the status
HandleZoomChangeSurfaced(i, newZoom, applied) ==
    /\ scanners[i].mounted /\ scanners[i].hasCamera
    /\ scanners[i].zoomRange.max > scanners[i].zoomRange.min
    /\ newZoom \in scanners[i].zoomRange.min .. scanners[i].zoomRange.max
    /\ IF scanners[i].streamRef # NullRef /\ ~applied
       THEN /\ scanners' = scanners
            /\ message' = [text |-> CameraErrorText, isSuccess |-> FALSE]
       ELSE /\ scanners' = [scanners EXCEPT
                   ![i].zoomLevel = newZoom,
                   ![i].deviceZoom = IF scanners[i].streamRef # NullRef
                                     THEN newZoom ELSE @]
            /\ message' = message
    /\ UNCHANGED <<taskInput, isLoading, showQrScanner, pending, nIssued>>

\* handleZoomChange (lines 96-108); applied tells whether the device honours
\* the constraint (a rejection is caught and logged, lines 104-106)
HandleZoomChange(i, newZoom, applied) ==
    /\ scanners[i].mounted /\ scanners[i].hasCamera
    /\ scanners[i].zoomRange.max > scanners[i].zoomRange.min      \* line 171
    /\ newZoom \in scanners[i].zoomRange.min .. scanners[i].zoomRange.max
    /\ scanners' = [scanners EXCEPT
           ![i].zoomLevel = newZoom,                              \* line 98
           ![i].deviceZoom = IF scanners[i].streamRef # NullRef /\ applied
                             THEN newZoom ELSE @]                 \* lines 100-103
    /\ UNCHANGED <<taskInput, isLoading, message, showQrScanner, pending, nIssued>>

----------------------------------------------------------------------------

Next ==
    \/ \E s \in TypedTexts : ChangeInput(s)
    \/ PressEnter
    \/ ClickAdd
    \/ ToggleQr
    \/ CloseScanner
    \/ \E r \in pending, outcome \in Outcomes : Response(r, outcome)
    \/ \E i \in DOMAIN scanners : GrantCamera(i)
    \/ \E i \in DOMAIN scanners : DenyCamera(i)
    \/ \E i \in DOMAIN scanners, zoom \in ZoomCapabilities : LoadedMetadata(i, zoom)
    \/ \E i \in DOMAIN scanners, result \in TickResults : Tick(i, result)
    \/ \E i \in DOMAIN scanners, newZoom \in 1..2, applied \in BOOLEAN :
          HandleZoomChange(i, newZoom, applied)

Spec == Init /\ [][Next]_vars


\* The awaited network call of every request eventually resolves or rejects
\* (lines 211-221), and the continuation of handleAddTask then runs
NetworkSettles ==
    \A id \in 1..MaxRequests :
        WF_vars(\E r \in pending, outcome \in Outcomes :
                    r.id = id /\ Response(r, outcome))

SpecLive == Init /\ [][Next]_vars /\ NetworkSettles

\* handleAddTask() called as a function, whatever the text field holds (the
\* Enter key and the Add button call it only with a non-blank field)
CallHandleAddTask ==
    /\ HandleAddTask(Null, taskInput, taskInput)
    /\ UNCHANGED <<taskInput, showQrScanner, scanners>>

\* The TodoApp alone, with handleAddTask() called directly
NextCall ==
    \/ \E s \in TypedTexts : ChangeInput(s)
    \/ ToggleQr
    \/ CloseScanner
    \/ CallHandleAddTask
    \/ \E r \in pending, outcome \in Outcomes : Response(r, outcome)

SpecCall == Init /\ [][NextCall]_vars

----------------------------------------------------------------------------
(* Properties *)

\* t is non-empty and has no blank at either end
NoBlankAtEnds(t) == t # <<>> /\ t[1] # " " /\ t[Len(t)] # " "

\* s is t with blanks before and after it
IsPaddingOf(s, t) ==
    \E i \in 0..Len(s) :
        /\ i + Len(t) <= Len(s)
        /\ \A k \in 1..Len(s) :
              s[k] = IF k > i /\ k <= i + Len(t) THEN t[k - i] ELSE " "

\* s is empty or holds blanks only
IsBlank(s) == \A k \in 1..Len(s) : s[k] = " "

\* the requests this step issues
Issued == pending' \ pending

\* this step issues exactly one request and settles none
IssuesOne ==
    /\ nIssued' = nIssued + 1
    /\ pending \subseteq pending'
    /\ Cardinality(Issued) = 1

\* C1: at most one submission request is outstanding at any time.
C1_AtMostOneOutstanding == Cardinality(pending) <= 1

C3_StoppedSessionHoldsNothing ==
    \A i \in DOMAIN scanners :
        scanners[i].stopped => ~scanners[i].tracksLive /\ ~scanners[i].timerRunning

\* C4: the timer handle is non-null iff the stream is active.
C4_TimerHandleIffStreamActive ==
    \A i \in DOMAIN scanners :
        scanners[i].scanIntervalRef # NullRef
            <=> (scanners[i].streamRef # NullRef /\ scanners[i].tracksLive)

\* C5: a submit by Enter or Add issues exactly one request, whose attendanceId
\* is the text field's content without the blanks around it.
C5_TypedSubmitSendsTrimmed ==
    [][(PressEnter \/ ClickAdd) =>
          /\ IssuesOne
          /\ \A r \in Issued :
                NoBlankAtEnds(r.attendanceId) /\ IsPaddingOf(taskInput, r.attendanceId)]_vars

C5_Witness ==
    \E r \in pending :
        r.attendanceId = <<"a">> /\ r.startInput = <<" ", "a", " ">>

\* C6: a tick that decodes text d starts a submission in the same step whose
\* request carries attendanceId d, whatever the text field held, and sets the
\* text field to d.
C6_ScanSubmitsDecodedText ==
    [][\A i \in DOMAIN scanners, d \in QrTexts :
          (d # <<>> /\ Tick(i, [kind |-> "code", data |-> d])) =>
              /\ IssuesOne
              /\ \A r \in Issued : r.attendanceId = d
              /\ taskInput' = d]_vars

\* a scanned request is outstanding next to a typed one: the text field held
\* the typed text when the tick decoded
C6_Witness ==
    /\ taskInput \in QrTexts \ {<<>>}
    /\ \E r \in pending : r.attendanceId = taskInput
    /\ \E r \in pending : r.attendanceId = <<"a">>

\* C7: every request issued carries an attendanceId that is non-empty and
\* has no leading or trailing whitespace.
C7_AttendanceIdTrimmed ==
    \A r \in pending : NoBlankAtEnds(r.attendanceId)

\* C8: handleAddTask() with an empty or blank text field issues no request,
\* sets the failure status "Please enter a task or scan QR" and leaves the
\* in-flight flag, the text field and the scanner flag unchanged.
C8_BlankSubmitIssuesNothing ==
    [][(CallHandleAddTask /\ IsBlank(taskInput)) =>
          /\ pending' = pending
          /\ nIssued' = nIssued
          /\ message' = [text |-> PleaseEnterText, isSuccess |-> FALSE]
          /\ isLoading' = isLoading
          /\ taskInput' = taskInput
          /\ showQrScanner' = showQrScanner]_vars

C8_Witness ==
    /\ message = [text |-> PleaseEnterText, isSuccess |-> FALSE]
    /\ IsBlank(taskInput)
    /\ taskInput # <<>>

\* C9: an OK response whose summary has no entry with code
\* ATTENDANCE_NOT_VALID (an empty summary included) leaves a success status
\* and an empty text field.
C9_NoFailedEntryIsSuccess ==
    [][\A r \in pending, s \in Summaries :
          (/\ \A k \in 1..Len(s) : s[k].code # "ATTENDANCE_NOT_VALID"
           /\ Response(r, [kind |-> "ok", summary |-> s])) =>
              message'.isSuccess /\ message'.text # NoText /\ taskInput' = <<>>]_vars

C9_Witness ==
    /\ message.isSuccess
    /\ taskInput = <<>>
    /\ ~showQrScanner

\* the lines the claim expects for a summary: one per entry with the code, in
\* order: the first 11 characters of the email upper-cased, ": ", the code
RECURSIVE ExpectedLines(_)
ExpectedLines(s) ==
    IF s = <<>> THEN <<>>
    ELSE IF Head(s).code = "ATTENDANCE_NOT_VALID"
         THEN << [k \in 1..(IF Len(Head(s).email) < 11 THEN Len(Head(s).email) ELSE 11)
                     |-> ToUpperChar(Head(s).email[k])]
                 \o <<":", " ", "ATTENDANCE_NOT_VALID">> >> \o ExpectedLines(Tail(s))
         ELSE ExpectedLines(Tail(s))

\* C10: an OK response whose summary has an entry with code
\* ATTENDANCE_NOT_VALID leaves a failure status with one line per failing
\* entry, in summary order, and the text field keeps the value it had when the
\* submission started.
C10_FailedEntriesListedInputKept ==
    [][\A r \in pending, s \in Summaries :
          (/\ \E k \in 1..Len(s) : s[k].code = "ATTENDANCE_NOT_VALID"
           /\ Response(r, [kind |-> "ok", summary |-> s])) =>
              /\ ~message'.isSuccess
              /\ message'.text = <<SomeFailedHeader>> \o ExpectedLines(s)
              /\ taskInput' = r.startInput]_vars


\* the ways a submission fails in transport: a network error, a non-OK
\* response, a body that is not JSON, a body without a summary list
TransportFailures == {"network_error", "http_error", "bad_json", "no_summary"}

\* C11: a transport failure leaves exactly the generic failure status, with no
\* per-entry line, and the text field and the scanner flag as they were; a
\* well-formed response never leaves the generic status.
C11_TransportFailureIsGeneric ==
    [][\A r \in pending, outcome \in Outcomes :
          Response(r, outcome) =>
             IF outcome.kind \in TransportFailures
             THEN /\ message' = [text |-> << <<"Failed to process task. Please try again.">> >>,
                                 isSuccess |-> FALSE]
                  /\ taskInput' = taskInput
                  /\ showQrScanner' = showQrScanner
             ELSE message'.text # << <<"Failed to process task. Please try again.">> >>]_vars

\* the generic status, with the text field and the scanner as the submit
\* left them
C11_Witness ==
    /\ message = [text |-> GenericFailText, isSuccess |-> FALSE]
    /\ taskInput = <<" ", "a", " ">>
    /\ showQrScanner
    /\ ~isLoading

\* C12: every submission that enters Submitting leaves it: the in-flight flag
\* is never set with no request outstanding, and, the network settling every
\* request, a set flag is eventually cleared with a status shown.
C12_SubmittingEnds ==
    /\ [](isLoading => pending # {})
    /\ isLoading ~> (~isLoading /\ message.text # NoText)

C12_Witness ==
    /\ nIssued > 0
    /\ pending = {}
    /\ ~isLoading
    /\ message.text # NoText

\* the session holds no stream and its sampling timer is not running
HoldsNothing(s) ==
    /\ s.streamRef = NullRef
    /\ ~s.tracksLive
    /\ s.scanIntervalRef = NullRef
    /\ ~s.timerRunning

\* C13: a denied camera request ends the session as camera-unavailable: the
\* status is the camera error as a failure, the in-flight flag and the text
\* field are as they were, the camera-available flag of a mounted instance is
\* cleared, and from then on the session holds no stream, never starts its
\* timer and never has a camera request pending again.
C13_DeniedCameraIsTerminal ==
    [][\A i \in DOMAIN scanners :
          /\ DenyCamera(i) =>
                /\ message' = [text |-> << <<"Camera access denied or not available">> >>,
                               isSuccess |-> FALSE]
                /\ isLoading' = isLoading
                /\ taskInput' = taskInput
                /\ scanners'[i].camera = "denied"
                /\ scanners[i].mounted => ~scanners'[i].hasCamera
                /\ HoldsNothing(scanners'[i])
          /\ scanners[i].camera = "denied" =>
                /\ scanners'[i].camera = "denied"
                /\ scanners'[i].hasCamera = scanners[i].hasCamera
                /\ HoldsNothing(scanners'[i])]_vars

\* the open scanner was denied the camera: the error is shown, nothing is in
\* flight, the text field takes input
C13_Witness ==
    \E i \in DOMAIN scanners :
        /\ scanners[i].mounted /\ scanners[i].camera = "denied"
        /\ ~scanners[i].hasCamera /\ scanners[i].stopped
        /\ message = [text |-> CameraErrorText, isSuccess |-> FALSE]
        /\ ~isLoading
        /\ taskInput = <<" ", "a", " ">>

\* C14: at most one capture session exists at a time: at most one camera
\* stream has live tracks and at most one sampling timer is running.
C14_AtMostOneCaptureSession ==
    /\ Cardinality({i \in DOMAIN scanners : scanners[i].tracksLive}) <= 1
    /\ Cardinality({i \in DOMAIN scanners : scanners[i].timerRunning}) <= 1

\* C15: stopCamera is idempotent: no stop that ran has thrown, and for every
\* session a stop does not throw, a second stop leaves the session exactly as
\* the first left it, and a stop of a session that holds neither stream nor
\* timer handle changes nothing of it.
C15_StopCameraIdempotent ==
    \A i \in DOMAIN scanners :
        LET s == scanners[i]
            once == StopCamera(s)
        IN /\ ~s.threw
           /\ ~once.threw
           /\ StopCamera(once) = once
           /\ s.streamRef = NullRef /\ s.scanIntervalRef = NullRef =>
                 once = [s EXCEPT !.stopped = TRUE]

\* a session stopped three times (twice when the request was denied, lines
\* 113-117, once more when the scanner was closed) next to one stopped
\* before its request was answered
C15_Witness ==
    \E i, j \in DOMAIN scanners :
        /\ scanners[i].camera = "denied" /\ ~scanners[i].hasCamera
        /\ ~scanners[i].mounted /\ scanners[i].stopped /\ ~scanners[i].threw
        /\ scanners[j].camera = "pending" /\ scanners[j].stopped /\ ~scanners[j].threw

\* the session's loop is running on a live stream and has not fired yet
LoopGoesOn(s) ==
    /\ s.mounted /\ s.timerRunning /\ s.scanIntervalRef # NullRef
    /\ s.tracksLive /\ s.streamRef # NullRef
    /\ s.fires = 0

\* C16: a tick that finds the video not ready changes nothing: text field,
\* status, in-flight flag, scanner flag and requests are as they were, the
\* session keeps its stream and timer handles and has not fired the scan
\* callback, and its timer stays armed.
C16_UnreadyTickIsSkipped ==
    /\ [][\A i \in DOMAIN scanners :
             Tick(i, [kind |-> "not_ready", data |-> <<>>]) =>
                /\ UNCHANGED <<taskInput, message, isLoading, showQrScanner, pending, nIssued>>
                /\ scanners' = [scanners EXCEPT ![i].lastMiss = "not_ready"]]_vars
    /\ [](\A i \in DOMAIN scanners :
             scanners[i].lastMiss = "not_ready" => LoopGoesOn(scanners[i]))

\* a tick was skipped with a text typed, the scanner open and its loop
\* still running
C16_Witness ==
    \E i \in DOMAIN scanners :
        /\ scanners[i].lastMiss = "not_ready"
        /\ scanners[i].timerRunning /\ scanners[i].fires = 0
        /\ showQrScanner
        /\ taskInput = <<" ", "a", " ">>

\* C17: a decode error on a tick is not fatal: the step fires no scan
\* callback and changes no state, the loop goes on with its timer and stream,
\* and a tick after it that decodes a code fires the scan callback.
C17_DecodeErrorIsNotFatal ==
    /\ [][\A i \in DOMAIN scanners :
             /\ Tick(i, [kind |-> "throws", data |-> <<>>]) =>
                   /\ UNCHANGED <<taskInput, message, isLoading, showQrScanner, pending, nIssued>>
                   /\ scanners' = [scanners EXCEPT ![i].lastMiss = "throws"]
             /\ \A d \in QrTexts \ {<<>>} :
                   scanners[i].lastMiss = "throws" /\ Tick(i, [kind |-> "code", data |-> d]) =>
                      /\ scanners'[i].fires = scanners[i].fires + 1
                      /\ taskInput' = d]_vars
    /\ [](\A i \in DOMAIN scanners :
             scanners[i].lastMiss = "throws" => LoopGoesOn(scanners[i]))

\* a decode error has happened and the loop is still running on a live
\* stream
C17_Witness ==
    \E i \in DOMAIN scanners :
        /\ scanners[i].lastMiss = "throws"
        /\ scanners[i].timerRunning /\ scanners[i].tracksLive
        /\ scanners[i].fires = 0
        /\ showQrScanner

\* C18: a zoom request the device rejects is neither fatal nor surfaced: the
\* displayed zoom becomes the requested value whether or not the device
\* applied it, and a rejected request changes nothing else - not the stream,
\* the timer, the camera-available flag or the status.
C18_RejectedZoomIsSwallowed ==
    [][\A i \in DOMAIN scanners, newZoom \in 1..2 :
          /\ \A applied \in BOOLEAN :
                HandleZoomChange(i, newZoom, applied) =>
                   scanners'[i].zoomLevel = newZoom
          /\ HandleZoomChange(i, newZoom, FALSE) =>
                /\ scanners' = [scanners EXCEPT ![i].zoomLevel = newZoom]
                /\ UNCHANGED <<taskInput, message, isLoading, showQrScanner, pending, nIssued>>]_vars

\* the display shows a zoom the device did not apply, with the stream, the
\* loop and the camera-available flag as before and no status
C18_Witness ==
    \E i \in DOMAIN scanners :
        /\ scanners[i].zoomLevel = 2 /\ scanners[i].deviceZoom = 1
        /\ scanners[i].tracksLive /\ scanners[i].timerRunning
        /\ scanners[i].hasCamera
        /\ message.text = NoText

\* C19: the in-flight flag is set exactly while a submission request is
\* outstanding; it is never cleared while a request is still outstanding.
C19_LoadingIffOutstanding ==
    isLoading <=> pending # {}
=============================================================================
